---- MODULE Spec2Model ----
(***************************************************************************)
(* A model of src/bibtexParser.py: the bibtexParser object (its three      *)
(* fields bibtex_string, metadata_entries, parsed_entries), its public     *)
(* operations, and the two regular expressions it applies.                 *)
(*                                                                         *)
(* A Python str is a sequence of one-character strings.  Python's None is  *)
(* the one-element sequence NoneVal, which no text equals (its element is  *)
(* not a character).  A dict is a function whose domain is its key set.    *)
(* An exception leaving a public operation is recorded in `raised`.        *)
(***************************************************************************)
EXTENDS Naturals, Sequences, FiniteSets, TLC

VARIABLES
    path_kind,          \* the file behind file_path: "ok", "not_bib", "missing", "unreadable"
    content,            \* the text of that file on disk (never changes)
    net,                \* the DOI registry: doi -> outcome of requests.head
    bibtex_string,      \* self.bibtex_string
    metadata_entries,   \* self.metadata_entries
    parsed_entries,     \* self.parsed_entries
    last_op,            \* the public operation called last ("__init__" after construction)
    raised,             \* the exception that left the last call, "none" if it returned
    caught,             \* the exception parse_bibtex caught and logged in the last call
    pre,                \* metadata_entries and parsed_entries as they were before the last call
    calls,              \* the number of calls made on this parser since its construction
    was_read,           \* TRUE once read_bibtex_file has run on this parser
    hist,               \* one record per parse_bibtex run: what parsed_entries held after it
    fp_metadata,        \* pure-function check: the metadata string given to _parse_metadata
    fp_pattern,         \* pure-function check: the pattern given to _parse_metadata
    fp_result           \* pure-function check: what _parse_metadata did

vars == <<path_kind, content, net, bibtex_string, metadata_entries, parsed_entries,
          last_op, raised, caught, pre, calls, was_read, hist, fp_metadata, fp_pattern, fp_result>>

objvars == <<path_kind, content, net, bibtex_string, metadata_entries, parsed_entries,
             last_op, raised, caught, pre, calls, was_read, hist>>

fpvars == <<fp_metadata, fp_pattern, fp_result>>

(***************************************************************************)
(* Characters and strings.                                                 *)
(***************************************************************************)
NoneVal == <<"None">>

\* str.lower() on the upper-case letters the model uses
UpperLower == [c \in {"A", "B", "D", "O", "I"} |->
                 CASE c = "A" -> "a" [] c = "B" -> "b" [] c = "D" -> "d"
                   [] c = "O" -> "o" [] c = "I" -> "i"]

Upper == DOMAIN UpperLower

Lowercase == {"a", "b", "d", "i", "k", "l", "o", "r", "t", "u"}

\* [A-Za-z]
Letters == Lowercase \cup Upper

Digits == {"0", "1", "2"}

\* \w
Word == Letters \cup Digits \cup {"_"}

\* \s, and what str.strip() removes
Space == {" ", "\n"}

LowerChar(c) == IF c \in Upper THEN UpperLower[c] ELSE c

Lower(s) == [i \in 1..Len(s) |-> LowerChar(s[i])]

RECURSIVE LStrip(_)
LStrip(s) == IF s # <<>> /\ Head(s) \in Space THEN LStrip(Tail(s)) ELSE s

RECURSIVE RStrip(_)
RStrip(s) ==
    IF s # <<>> /\ s[Len(s)] \in Space THEN RStrip(SubSeq(s, 1, Len(s) - 1)) ELSE s

Strip(s) == RStrip(LStrip(s))

\* the first index >= i of s whose character is not in class, Len(s)+1 if none:
\* where a greedy class* starting at i stops
RECURSIVE RunEnd(_, _, _)
RunEnd(s, i, class) ==
    IF i <= Len(s) /\ s[i] \in class THEN RunEnd(s, i + 1, class) ELSE i

\* the first index >= i of s holding character c, 0 if none
RECURSIVE FindChar(_, _, _)
FindChar(s, i, c) ==
    IF i > Len(s) THEN 0 ELSE IF s[i] = c THEN i ELSE FindChar(s, i + 1, c)

(***************************************************************************)
(* pattern_chunk_split = (@[A-Za-z]+{) and re.split.                       *)
(***************************************************************************)
\* the index of the "{" ending a delimiter that starts at i, 0 when none starts there
DelimEnd(s, i) ==
    IF i <= Len(s) /\ s[i] = "@"
    THEN LET j == RunEnd(s, i + 1, Letters)
         IN  IF j > i + 1 /\ j <= Len(s) /\ s[j] = "{" THEN j ELSE 0
    ELSE 0

\* re.split with one capturing group: the text before each match, then the match,
\* ..., then the text after the last match; i scans, start is where the current
\* text segment began
RECURSIVE ReSplit(_, _, _)
ReSplit(s, i, start) ==
    IF i > Len(s)
    THEN <<SubSeq(s, start, Len(s))>>
    ELSE LET e == DelimEnd(s, i)
         IN  IF e # 0
             THEN <<SubSeq(s, start, i - 1), SubSeq(s, i, e)>> \o ReSplit(s, e + 1, e + 1)
             ELSE ReSplit(s, i + 1, start)

\* as _extract_entry_metadata, but without the test of the first character
ExtractAnyNonBlank(chunk) ==
    LET c == Strip(chunk) IN IF c # <<>> THEN c ELSE NoneVal

\* _extract_entry_metadata: the stripped chunk, or None
_extract_entry_metadata(chunk) ==
    LET c == Strip(chunk) IN IF c # <<>> /\ c[1] # "@" THEN c ELSE NoneVal

\* the loop of extract_metadata over the chunks: append what is truthy
RECURSIVE ExtractLoop(_, _)
ExtractLoop(chunks, entries) ==
    IF chunks = <<>>
    THEN entries
    ELSE LET metadata == _extract_entry_metadata(Head(chunks))
         IN  ExtractLoop(Tail(chunks),
                         IF metadata # NoneVal THEN Append(entries, metadata) ELSE entries)

(***************************************************************************)
(* The default field pattern of parse_metadata (line 86) and re.findall:  *)
(* a key of word characters, spaces, "=", spaces, then a value in double   *)
(* quotes (group 2), or in braces (group 3), or a bare run of word         *)
(* characters (group 4).  Every quantifier is greedy and is followed by a  *)
(* character outside its class, so giving characters back never turns a    *)
(* failed attempt into a match: the attempt at i is the greedy one.        *)
(***************************************************************************)
DefaultPattern == "default"

\* a pattern re.compile rejects, such as "("
InvalidPattern == "invalid"

NoMatch == [ok |-> FALSE, end |-> 0, groups |-> <<>>]

\* as Delimited, but the group takes the closing character too
DelimitedWithClose(s, key, p, close, g) ==
    LET q == FindChar(s, p + 1, close)
    IN  IF q = 0
        THEN NoMatch
        ELSE [ok |-> TRUE, end |-> q,
              groups |-> [n \in 1..4 |-> IF n = 1 THEN key
                                         ELSE IF n = g THEN SubSeq(s, p + 1, q)
                                         ELSE <<>>]]

\* "..." or {...} starting at p (s[p] is the opening character): group number g
\* (2 or 3) of the four groups holds the content
Delimited(s, key, p, close, g) ==
    LET q == FindChar(s, p + 1, close)
    IN  IF q = 0
        THEN NoMatch
        ELSE [ok |-> TRUE, end |-> q,
              groups |-> [n \in 1..4 |-> IF n = 1 THEN key
                                         ELSE IF n = g THEN SubSeq(s, p + 1, q - 1)
                                         ELSE <<>>]]

\* the match of the pattern that starts at i, with its four groups (a group that
\* took no part is the empty string, as re.findall gives it)
MatchField(s, i) ==
    LET kEnd == RunEnd(s, i, Word)
        eq   == RunEnd(s, kEnd, Space)
        p    == RunEnd(s, eq + 1, Space)
    IN  IF kEnd = i \/ eq > Len(s) \/ s[eq] # "=" \/ p > Len(s)
        THEN NoMatch
        ELSE LET key == SubSeq(s, i, kEnd - 1)
             IN  IF s[p] = "\""
                 THEN Delimited(s, key, p, "\"", 2)
                 ELSE IF s[p] = "{"
                 THEN Delimited(s, key, p, "}", 3)
                 ELSE IF s[p] \in Word
                 THEN LET wEnd == RunEnd(s, p, Word)
                      IN  [ok |-> TRUE, end |-> wEnd - 1,
                           groups |-> <<key, <<>>, <<>>, SubSeq(s, p, wEnd - 1)>>]
                 ELSE NoMatch

\* re.findall(pattern, s): the groups of the non-overlapping matches, left to right
RECURSIVE FindAll(_, _)
FindAll(s, i) ==
    IF i > Len(s)
    THEN <<>>
    ELSE LET m == MatchField(s, i)
         IN  IF m.ok THEN <<m.groups>> \o FindAll(s, m.end + 1) ELSE FindAll(s, i + 1)

NonEmpty(x) == x # <<>>

\* tuple(x for x in match if x not in (None, ""))
DropEmpty(match) == SelectSeq(match, NonEmpty)

EmptyDict == [k \in {} |-> <<>>]

\* None where a dict is expected: a function no dict of fields equals (its key is
\* not a text), so that it compares with dicts
NoneDict == [k \in {NoneVal} |-> NoneVal]

\* as DictSet, but a key already present keeps its value
DictSetIfAbsent(d, key, value) ==
    [k \in DOMAIN d \cup {key} |-> IF k \in DOMAIN d THEN d[k] ELSE value]

\* d[key] = value
DictSet(d, key, value) ==
    [k \in DOMAIN d \cup {key} |-> IF k = key THEN value ELSE d[k]]

\* {key.lower(): value for key, value in matches}: unpacking a tuple that is not
\* a pair raises ValueError and no dict is built
RECURSIVE DictComprehension(_, _)
DictComprehension(matches, d) ==
    IF matches = <<>>
    THEN [exc |-> "none", value |-> d]
    ELSE LET m == Head(matches)
         IN  IF Len(m) # 2
             THEN [exc |-> "ValueError", value |-> NoneDict]
             ELSE DictComprehension(Tail(matches), DictSet(d, Lower(m[1]), m[2]))

\* _parse_metadata(metadata, pattern): what it returns, or the exception that
\* leaves it (re.error is caught and None returned; nothing else is caught)
_parse_metadata(metadata, pattern) ==
    IF pattern = InvalidPattern
    THEN [exc |-> "none", value |-> NoneDict]
    ELSE LET found   == FindAll(metadata, 1)
             matches == [n \in 1..Len(found) |-> DropEmpty(found[n])]
         IN  DictComprehension(matches, EmptyDict)

(***************************************************************************)
(* The DOI lookup.                                                         *)
(***************************************************************************)
DOI == <<"d", "o", "i">>

URL == <<"u", "r", "l">>

DOI_URL == <<"d", "o", "i", "_", "u", "r", "l">>

\* requests.head raised (any exception: both except clauses end in return None)
LookupFailed == [ok |-> FALSE, url |-> NoneVal]

\* requests.head returned; response.url is url, whatever the final status code
LookupOk(url) == [ok |-> TRUE, url |-> url]

\* _get_url_from_doi(doi): response.url, or None when the request raised
_get_url_from_doi(doi) == IF net[doi].ok THEN net[doi].url ELSE NoneVal

\* as AddUrl, but a url the entry already has is kept
AddUrlKeepsOwnUrl(entry) ==
    IF DOI \in DOMAIN entry
    THEN LET url == _get_url_from_doi(entry[DOI])
         IN  DictSetIfAbsent(DictSet(entry, DOI_URL, url), URL, url)
    ELSE entry

\* the body of add_urls_from_doi's loop for one entry
AddUrl(entry) ==
    IF DOI \in DOMAIN entry
    THEN LET url == _get_url_from_doi(entry[DOI])
         IN  DictSet(DictSet(entry, DOI_URL, url), URL, url)
    ELSE entry

\* as AddUrlsLoop, but the loop ends at the first lookup that fails
RECURSIVE AddUrlsUntilFailure(_, _)
AddUrlsUntilFailure(entries, idx) ==
    IF idx > Len(entries)
    THEN [exc |-> "none", entries |-> entries]
    ELSE IF DOI \in DOMAIN entries[idx] /\ _get_url_from_doi(entries[idx][DOI]) = NoneVal
    THEN [exc |-> "none", entries |-> entries]
    ELSE AddUrlsUntilFailure([entries EXCEPT ![idx] = AddUrl(entries[idx])], idx + 1)

\* add_urls_from_doi's loop from index idx on ("doi" in None is a TypeError)
RECURSIVE AddUrlsLoop(_, _)
AddUrlsLoop(entries, idx) ==
    IF idx > Len(entries)
    THEN [exc |-> "none", entries |-> entries]
    ELSE IF entries[idx] = NoneDict
    THEN [exc |-> "TypeError", entries |-> entries]
    ELSE AddUrlsLoop([entries EXCEPT ![idx] = AddUrl(entries[idx])], idx + 1)

(***************************************************************************)
(* The loops of the public operations, as functions of the object's fields *)
(***************************************************************************)
\* read_bibtex_file: the new bibtex_string
ReadFile(old) == IF path_kind = "ok" THEN content ELSE old

\* extract_metadata: None has no strip(), and AttributeError is not re.error
ExtractMetadata(text, entries) ==
    IF text = NoneVal
    THEN [exc |-> "AttributeError", entries |-> entries]
    ELSE [exc |-> "none", entries |-> ExtractLoop(ReSplit(Strip(text), 1, 1), entries)]

\* parse_metadata's loop: one append per metadata string, until one raises
RECURSIVE ParseLoop(_, _)
ParseLoop(metadata, entries) ==
    IF metadata = <<>>
    THEN [exc |-> "none", entries |-> entries]
    ELSE LET parsed_data == _parse_metadata(Head(metadata), DefaultPattern)
         IN  IF parsed_data.exc # "none"
             THEN [exc |-> parsed_data.exc, entries |-> entries]
             ELSE ParseLoop(Tail(metadata), Append(entries, parsed_data.value))

\* parse_bibtex, lines 125-137: the four stages in order inside try/except
\* Exception; a stage that raises ends the run with what was done so far.
\* e is the result of extract_metadata: parse_metadata runs if it returned
ParseStage(e, entries) ==
    IF e.exc # "none" THEN [exc |-> e.exc, entries |-> entries]
    ELSE ParseLoop(e.entries, entries)

\* p is the result of the stages up to parse_metadata: add_urls_from_doi runs if
\* they returned
UrlStage(p) == IF p.exc # "none" THEN p ELSE AddUrlsLoop(p.entries, 1)

(***************************************************************************)
(* Bounds and inputs.                                                      *)
(***************************************************************************)
\* entries in one file
MaxEntries == 2

\* calls made on one parser object
MaxCalls == 4

\* parse_bibtex runs recorded in hist
MaxRuns == 2

\* chunk texts are built from at most this many tokens
MaxTokens == 4

\* key = value fields in one metadata string given to _parse_metadata
MaxFields == 2

\* the concatenation of a sequence of strings
RECURSIVE Concat(_)
Concat(ss) == IF ss = <<>> THEN <<>> ELSE Head(ss) \o Concat(Tail(ss))

\* all sequences over S of length at most n
SeqsUpTo(S, n) == UNION {[1..m -> S] : m \in 0..n}

PathKinds == {"ok", "not_bib", "missing", "unreadable"}

\* entry bodies of the files the parser is run on (what follows "@a{"):
\*   k}                  no field
\*   doi=1}              a bare DOI
\*   url=a,DOI={2}}      a url of its own and an upper-case DOI key
\*   t=""}               an empty value
Bodies ==
    { <<"k", "}">>,
      <<"d", "o", "i", "=", "1", "}">>,
      <<"u", "r", "l", "=", "a", ",", "D", "O", "I", "=", "{", "2", "}", "}">>,
      <<"t", "=", "\"", "\"", "}">> }

Entry(body) == <<"@", "a", "{">> \o body \o <<"\n">>

FileOf(bodies) == Concat([i \in 1..Len(bodies) |-> Entry(bodies[i])])

\* the DOIs a file of these bodies holds: the ones the registry is asked for
DoisOf(bodies) ==
    {<<"1">> : i \in {j \in 1..Len(bodies) : bodies[j][1] = "d"}}
    \cup {<<"2">> : i \in {j \in 1..Len(bodies) : bodies[j][1] = "u"}}

Outcomes == {LookupFailed, LookupOk(<<"h", "1">>)}

\* texts for the chunker alone: every concatenation of a few tokens
Tokens == { <<"@", "a", "{">>, <<"@">>, <<"a">>, <<"B">>, <<"{">>, <<" ">>, <<",">>, <<"1">> }

TokenTexts == {Concat(ts) : ts \in SeqsUpTo(Tokens, MaxTokens)}

\* metadata strings for _parse_metadata alone: key = value fields joined by ", "
FieldKeys == { <<"a">>, <<"A">>, <<"A", "b">> }

FieldVals == { <<>>, <<"b">>, <<"B", "2">> }

Forms == {"quoted", "braced", "bare"}

Spacings == { <<>>, <<" ">> }

Fields == [key : FieldKeys, form : Forms, val : FieldVals, sp : Spacings]

Render(f) ==
    f.key \o f.sp \o <<"=">> \o f.sp \o
    (CASE f.form = "quoted" -> <<"\"">> \o f.val \o <<"\"">>
       [] f.form = "braced" -> <<"{">> \o f.val \o <<"}">>
       [] f.form = "bare"   -> f.val)

RECURSIVE RenderAll(_)
RenderAll(fs) ==
    IF fs = <<>> THEN <<>>
    ELSE IF Len(fs) = 1 THEN Render(fs[1])
    ELSE Render(fs[1]) \o <<",", " ">> \o RenderAll(Tail(fs))

FieldTexts == {RenderAll(fs) : fs \in SeqsUpTo(Fields, MaxFields)}

Patterns == {DefaultPattern, InvalidPattern}

(***************************************************************************)
(* The state after bibtexParser(file_path), and the public operations.     *)
(***************************************************************************)
Unset == [exc |-> "unset", value |-> NoneDict]

NoSnapshot == [bibtex_string |-> NoneVal, metadata_entries |-> <<>>, parsed_entries |-> <<>>]

Snapshot ==
    [bibtex_string |-> bibtex_string, metadata_entries |-> metadata_entries,
     parsed_entries |-> parsed_entries]

\* __init__: lines 21-23
Constructed ==
    /\ bibtex_string = NoneVal
    /\ metadata_entries = <<>>
    /\ parsed_entries = <<>>
    /\ last_op = "__init__"
    /\ raised = "none"
    /\ caught = "none"
    /\ pre = NoSnapshot
    /\ calls = 0
    /\ was_read = FALSE

FieldParserIdle ==
    /\ fp_metadata = <<>>
    /\ fp_pattern = DefaultPattern
    /\ fp_result = Unset

\* a parser constructed on a file of such entries; a file that cannot be read
\* holds nothing the parser sees
Init ==
    /\ path_kind \in PathKinds
    /\ \E bodies \in SeqsUpTo(Bodies, IF path_kind = "ok" THEN MaxEntries ELSE 0) :
          /\ content = FileOf(bodies)
          /\ net \in [DoisOf(bodies) -> Outcomes]
    /\ hist = <<>>
    /\ Constructed
    /\ FieldParserIdle

\* what every call does to the observer's variables
Called(op, exc) ==
    /\ last_op' = op
    /\ raised' = exc
    /\ pre' = Snapshot
    /\ calls < MaxCalls
    /\ calls' = calls + 1
    /\ UNCHANGED <<path_kind, content, net, fp_metadata, fp_pattern, fp_result>>

\* a new bibtexParser(file_path) on the same file
__init__ ==
    /\ last_op # "__init__"
    /\ bibtex_string' = NoneVal
    /\ metadata_entries' = <<>>
    /\ parsed_entries' = <<>>
    /\ last_op' = "__init__"
    /\ raised' = "none"
    /\ caught' = "none"
    /\ pre' = NoSnapshot
    /\ calls' = 0
    /\ was_read' = FALSE
    /\ UNCHANGED <<path_kind, content, net, hist, fp_metadata, fp_pattern, fp_result>>

read_bibtex_file ==
    /\ bibtex_string' = ReadFile(bibtex_string)
    /\ Called("read_bibtex_file", "none")
    /\ caught' = "none"
    /\ was_read' = TRUE
    /\ UNCHANGED <<metadata_entries, parsed_entries, hist>>

extract_metadata ==
    /\ \E r \in {ExtractMetadata(bibtex_string, metadata_entries)} :
           /\ metadata_entries' = r.entries
           /\ Called("extract_metadata", r.exc)
    /\ caught' = "none"
    /\ UNCHANGED <<bibtex_string, parsed_entries, was_read, hist>>

\* parse_metadata() with the default pattern, as parse_bibtex calls it
parse_metadata ==
    /\ \E r \in {ParseLoop(metadata_entries, parsed_entries)} :
           /\ parsed_entries' = r.entries
           /\ Called("parse_metadata", r.exc)
    /\ caught' = "none"
    /\ UNCHANGED <<bibtex_string, metadata_entries, was_read, hist>>

add_urls_from_doi ==
    /\ \E r \in {AddUrlsLoop(parsed_entries, 1)} :
           /\ parsed_entries' = r.entries
           /\ Called("add_urls_from_doi", r.exc)
    /\ caught' = "none"
    /\ UNCHANGED <<bibtex_string, metadata_entries, was_read, hist>>

\* parse_bibtex: s, e, p, a are what read_bibtex_file, extract_metadata,
\* parse_metadata and add_urls_from_doi leave; whatever a stage raises is caught
\* and logged, and the json flag only chooses what is returned
parse_bibtex ==
    /\ \E s \in {ReadFile(bibtex_string)} :
       \E e \in {ExtractMetadata(s, metadata_entries)} :
       \E p \in {ParseStage(e, parsed_entries)} :
       \E a \in {UrlStage(p)} :
           /\ bibtex_string' = s
           /\ metadata_entries' = e.entries
           /\ parsed_entries' = a.entries
           /\ caught' = a.exc
           /\ hist' = IF Len(hist) < MaxRuns
                      THEN Append(hist, [fresh |-> calls = 0, out |-> a.entries])
                      ELSE hist
    /\ was_read' = TRUE
    /\ Called("parse_bibtex", "none")

\* any sequence of the public operations on one parser object
Next ==
    \/ read_bibtex_file
    \/ extract_metadata
    \/ parse_metadata
    \/ add_urls_from_doi
    \/ parse_bibtex

Spec == Init /\ [][Next]_vars

(***************************************************************************)
(* Runs of the whole pipeline, on the same parser or on a new one.         *)
(***************************************************************************)
NextRuns ==
    \/ __init__
    \/ parse_bibtex

SpecRuns == Init /\ [][NextRuns]_vars

(***************************************************************************)
(* The chunker on arbitrary text: a readable file holding any token text.  *)
(***************************************************************************)
InitChunk ==
    /\ path_kind = "ok"
    /\ content \in TokenTexts
    /\ net = <<>>
    /\ hist = <<>>
    /\ Constructed
    /\ FieldParserIdle

NextChunk ==
    \/ read_bibtex_file
    \/ extract_metadata

SpecChunk == InitChunk /\ [][NextChunk]_vars

(***************************************************************************)
(* _parse_metadata as a pure function of its two arguments.                *)
(***************************************************************************)
InitField ==
    /\ path_kind = "missing"
    /\ content = <<>>
    /\ net = <<>>
    /\ hist = <<>>
    /\ Constructed
    /\ fp_metadata \in FieldTexts
    /\ fp_pattern = DefaultPattern
    /\ fp_result = Unset

call_parse_metadata ==
    /\ fp_result = Unset
    /\ \E pattern \in Patterns :
         /\ fp_pattern' = pattern
         /\ fp_result' = _parse_metadata(fp_metadata, pattern)
    /\ UNCHANGED <<fp_metadata, path_kind, content, net, bibtex_string, metadata_entries,
                   parsed_entries, last_op, raised, caught, pre, calls, was_read, hist>>

NextField == call_parse_metadata

SpecField == InitField /\ [][NextField]_vars

(***************************************************************************)
(* What the chunker is expected to do, stated without the scan: where the  *)
(* delimiters of a text are, and the segments they cut it into.            *)
(***************************************************************************)
\* i starts a delimiter: "@", one or more letters, "{"
ClosesAt(t, i, j) == t[j] = "{" /\ \A k \in (i + 1)..(j - 1) : t[k] \in Letters

DelimStarts(t) == {i \in 1..Len(t) : t[i] = "@" /\ \E j \in (i + 2)..Len(t) : ClosesAt(t, i, j)}

DelimClose(t, i) == CHOOSE j \in (i + 2)..Len(t) : ClosesAt(t, i, j)

RECURSIVE Ascending(_)
Ascending(S) ==
    IF S = {} THEN <<>>
    ELSE <<CHOOSE x \in S : \A y \in S : x <= y>>
         \o Ascending(S \ {CHOOSE x \in S : \A y \in S : x <= y})

\* the body of the entry whose delimiter is the n-th of starts
BodyOf(t, starts, n) ==
    SubSeq(t, DelimClose(t, starts[n]) + 1,
           IF n < Len(starts) THEN starts[n + 1] - 1 ELSE Len(t))

\* the text before the first delimiter, then each delimiter and the body after it
SegmentsOf(t) ==
    LET starts == Ascending(DelimStarts(t))
    IN  [m \in 1..(2 * Len(starts) + 1) |->
           IF m = 1 THEN SubSeq(t, 1, IF starts = <<>> THEN Len(t) ELSE starts[1] - 1)
           ELSE IF m % 2 = 0 THEN SubSeq(t, starts[m \div 2], DelimClose(t, starts[m \div 2]))
           ELSE BodyOf(t, starts, (m - 1) \div 2)]

\* a segment is kept: trimmed, it is non-empty and does not begin with "@"
Kept(seg) == Strip(seg) # <<>> /\ Strip(seg)[1] # "@"

StripEach(segs) == [n \in 1..Len(segs) |-> Strip(segs[n])]

\* a text made of entries only: blank, or beginning with a delimiter, each
\* delimiter followed by a body that is kept
MadeOfEntries(t) ==
    \/ t = <<>>
    \/ /\ 1 \in DelimStarts(t)
       /\ \A n \in 1..Cardinality(DelimStarts(t)) : Kept(BodyOf(t, Ascending(DelimStarts(t)), n))

\* extract_metadata has just returned on a parser that held no metadata
ExtractedFresh ==
    /\ last_op = "extract_metadata"
    /\ raised = "none"
    /\ pre.metadata_entries = <<>>

CountPreserved ==
    MadeOfEntries(Strip(bibtex_string)) =>
        metadata_entries =
            [n \in 1..Cardinality(DelimStarts(Strip(bibtex_string))) |->
               Strip(BodyOf(Strip(bibtex_string), Ascending(DelimStarts(Strip(bibtex_string))), n))]

KeptExactlyTheValidSegments ==
    metadata_entries = StripEach(SelectSeq(SegmentsOf(Strip(bibtex_string)), Kept))

ParsedWithDefault == fp_result # Unset /\ fp_pattern = DefaultPattern

\* what key.lower() is expected to give for the keys tried
LowerOfKey(k) ==
    CASE k = <<"a">> -> <<"a">>
      [] k = <<"A">> -> <<"a">>
      [] k = <<"A", "b">> -> <<"a", "b">>

\* values made only of word characters (and not empty)
WordVals == {v \in FieldVals : v # <<>> /\ \A n \in 1..Len(v) : v[n] \in Word}

OneField(k, form, v, sp) == Render([key |-> k, form |-> form, val |-> v, sp |-> sp])

\* C7: for every key k and value v of word characters, the chunks k = "v",
\* k = {v} and k = v (with or without the spaces around "=") all parse to the
\* one mapping {lower(k): v}: the value verbatim, only the key lowercased.
C7_ValueFormEquivalence ==
    ParsedWithDefault =>
        \A k \in FieldKeys, v \in WordVals, form \in Forms, sp \in Spacings :
            fp_metadata = OneField(k, form, v, sp) =>
                fp_result = [exc |-> "none", value |-> [x \in {LowerOfKey(k)} |-> v]]

\* Ab = "B2" parsed: key ab, value B2 as written
C7_Witness ==
    /\ ParsedWithDefault
    /\ fp_metadata = OneField(<<"A", "b">>, "quoted", <<"B", "2">>, <<" ">>)
    /\ fp_result.value = [x \in {<<"a", "b">>} |-> <<"B", "2">>]

\* the matches re.findall gives for the metadata string, as (key, value) pairs
MatchesFound == FindAll(fp_metadata, 1)

ValueOfMatch(m) == IF m[2] # <<>> THEN m[2] ELSE IF m[3] # <<>> THEN m[3] ELSE m[4]

\* the last match, left to right, whose lowercased key is k
LastMatchOf(k) ==
    CHOOSE n \in 1..Len(MatchesFound) :
        /\ Lower(MatchesFound[n][1]) = k
        /\ \A m \in (n + 1)..Len(MatchesFound) : Lower(MatchesFound[m][1]) # k

HasDoi(entry) == DOI \in DOMAIN entry

LookupOf(entry) == net[entry[DOI]]

\* C2: parse_metadata appends exactly one record per chunk and raises nothing,
\* whatever the chunks hold (a chunk with an empty value included).
C2_OneRecordPerChunk ==
    last_op = "parse_metadata" =>
        /\ raised = "none"
        /\ Len(parsed_entries) = Len(pre.parsed_entries) + Len(pre.metadata_entries)

\* C3: after add_urls_from_doi, a record whose DOI lookup failed has no doi_url
\* key and no url key that it did not have before, and nothing was raised.
C3_FailedLookupAddsNoKeys ==
    last_op = "add_urls_from_doi" =>
        /\ raised = "none"
        /\ \A i \in 1..Len(pre.parsed_entries) :
              (HasDoi(pre.parsed_entries[i]) /\ ~LookupOf(pre.parsed_entries[i]).ok) =>
                  (DOMAIN parsed_entries[i]) \cap {DOI_URL, URL} \subseteq DOMAIN pre.parsed_entries[i]

\* the record agrees with the parse of the chunk on every key but doi_url and url
RecordOfChunk(record, chunk) ==
    LET parsed_data == _parse_metadata(chunk, DefaultPattern)
    IN  /\ parsed_data.exc = "none"
        /\ DOMAIN record \ {DOI_URL, URL} = DOMAIN parsed_data.value \ {DOI_URL, URL}
        /\ \A k \in DOMAIN record \ {DOI_URL, URL} : record[k] = parsed_data.value[k]

\* C4: in every reachable state there are no more records than chunks, and the
\* record at position i comes from the chunk at position i.
C4_RecordsWithinChunks ==
    /\ Len(parsed_entries) <= Len(metadata_entries)
    /\ \A i \in 1..Len(parsed_entries) :
          i <= Len(metadata_entries) => RecordOfChunk(parsed_entries[i], metadata_entries[i])

\* C5: a second parse_bibtex run, on a fresh parser or on the same one, leaves
\* the parsed_entries the first run left (the file and the registry do not change).
C5_SecondRunSameOutput ==
    (Len(hist) >= 2 /\ hist[1].fresh) => hist[2].out = hist[1].out

\* C6: once read_bibtex_file has rejected the path, bibtex_string stays None and
\* every stage run after it returns without raising (inside parse_bibtex too,
\* where a raise would be caught), with both lists empty.
C6_UnsetInputIsNoOp ==
    (path_kind \in {"not_bib", "missing"} /\ was_read) =>
        /\ bibtex_string = NoneVal
        /\ raised = "none"
        /\ caught = "none"
        /\ metadata_entries = <<>>
        /\ parsed_entries = <<>>

\* C8: after add_urls_from_doi the records are as many and in the same order; a
\* record with a doi key whose lookup returned U has doi_url = U and url = U and
\* its other keys as before; a record without a doi key is unchanged.
C8_SuccessSetsBothUrls ==
    last_op = "add_urls_from_doi" =>
        /\ raised = "none"
        /\ Len(parsed_entries) = Len(pre.parsed_entries)
        /\ \A i \in 1..Len(pre.parsed_entries) :
              /\ ~HasDoi(pre.parsed_entries[i]) => parsed_entries[i] = pre.parsed_entries[i]
              /\ (HasDoi(pre.parsed_entries[i]) /\ LookupOf(pre.parsed_entries[i]).ok) =>
                    /\ DOMAIN parsed_entries[i] = DOMAIN pre.parsed_entries[i] \cup {DOI_URL, URL}
                    /\ parsed_entries[i][DOI_URL] = LookupOf(pre.parsed_entries[i]).url
                    /\ parsed_entries[i][URL] = LookupOf(pre.parsed_entries[i]).url
                    /\ \A k \in DOMAIN pre.parsed_entries[i] \ {DOI_URL, URL} :
                          parsed_entries[i][k] = pre.parsed_entries[i][k]

\* a record that came with url = a from the file now has the resolved URL in both
C8_Witness ==
    /\ last_op = "add_urls_from_doi"
    /\ \E i \in 1..Len(parsed_entries) :
          /\ HasDoi(pre.parsed_entries[i])
          /\ URL \in DOMAIN pre.parsed_entries[i]
          /\ pre.parsed_entries[i][URL] = <<"a">>
          /\ parsed_entries[i][URL] = <<"h", "1">>
          /\ parsed_entries[i][DOI_URL] = <<"h", "1">>

\* C9: a failed lookup for entry i neither stops the loop nor touches another
\* entry: every other entry j with a doi key has the result of its own lookup
\* in doi_url and url, and nothing is raised.
C9_FailureIsolated ==
    last_op = "add_urls_from_doi" =>
        \A i, j \in 1..Len(pre.parsed_entries) :
            (/\ i # j
             /\ HasDoi(pre.parsed_entries[i])
             /\ ~LookupOf(pre.parsed_entries[i]).ok
             /\ HasDoi(pre.parsed_entries[j])) =>
                /\ raised = "none"
                /\ {DOI_URL, URL} \subseteq DOMAIN parsed_entries[j]
                /\ parsed_entries[j][DOI_URL] = LookupOf(pre.parsed_entries[j]).url
                /\ parsed_entries[j][URL] = LookupOf(pre.parsed_entries[j]).url
                /\ \A k \in DOMAIN pre.parsed_entries[j] \ {DOI_URL, URL} :
                      parsed_entries[j][k] = pre.parsed_entries[j][k]

\* the first entry's lookup failed and the second, after it, got its URL
C9_Witness ==
    /\ last_op = "add_urls_from_doi"
    /\ Len(parsed_entries) = 2
    /\ HasDoi(pre.parsed_entries[1])
    /\ ~LookupOf(pre.parsed_entries[1]).ok
    /\ HasDoi(pre.parsed_entries[2])
    /\ DOI_URL \notin DOMAIN pre.parsed_entries[2]
    /\ parsed_entries[2][DOI_URL] = <<"h", "1">>

====
